---- MODULE Spec2Model ----
(***************************************************************************)
(* A model of the document-to-report pipeline of backend/main.py: the      *)
(* /analyze handler (analyze_book), its two event-stream generators        *)
(* (generate_cached_stream, generate_stream), the chunker                  *)
(* (split_into_chunks) and the files they share (the staging file          *)
(* temp_<filename>, the cache entries, the output files).                  *)
(*                                                                         *)
(* Reading of the source.  main.py as committed has a try: (line 464)      *)
(* whose body is indented one level deeper than the rest of the handler,   *)
(* and an except: (line 680) one level shallower.  The model reads the     *)
(* handler the way lines 680-683 show it was meant: the try covers lines   *)
(* 465-678 and "except Exception" removes the staging file and answers     *)
(* with HTTP 500 carrying str(e).                                          *)
(*                                                                         *)
(* Scheduling.  All requests run on one cooperative event loop: a handler  *)
(* runs from "await file.read()" to its return without suspension, and a   *)
(* generator runs from one yield to the next without suspension.  Each     *)
(* action below is one such segment.                                       *)
(*                                                                         *)
(* Text is a sequence of one-character strings.                            *)
(***************************************************************************)
EXTENDS Integers, Sequences, FiniteSets, TLC

\* ------------------------------------------------------------------ bounds

\* Requests of the main specification, and of the specification in which
\* every request submits the same document under the same mode.
NumRuns == 2
NumRacers == 3
\* The chunk size limit, scaled down from the 10000 of line 557 so that
\* documents of a few characters split into more than one chunk.
ChunkSize == 4
\* The largest number of content fragments a Reduce stream delivers when
\* several requests run.
MaxFrags == 1
\* The largest chunk count, and the largest number of progress events of a
\* Reduce stream, for which the percentages are compared as functions.
MaxChunks == 12
MaxTicks == 12
\* The last day and the last second of a day the clock reaches.
MaxDay == 1
MaxSec == 1
\* The longest text, and the largest size limit, split_into_chunks is called
\* with directly.
MaxLen == 6
MaxSize == 7
\* The connection limit of the http client, scaled down from the 10 of line
\* 35 so that a document of three chunks has more chunks than connections.
MaxConnections == 2

\* ------------------------------------------------------- program constants

\* generate_cached_stream: chunk_size = 100
ReplayChunkSize == 100
\* generate_stream: if chunk_count % 100 == 0
ProgressEvery == 100

\* ----------------------------------------------------------------- helpers

Max2(a, b) == IF a >= b THEN a ELSE b
Min2(a, b) == IF a <= b THEN a ELSE b

AllRuns == 1..Max2(NumRuns, NumRacers)

\* Python's None where a text is expected: no text, since a text is a sequence
\* of one-character strings.
None == <<"None">>

\* str.isspace for the characters the documents use
IsSpace(c) == c \in {" ", "\n", "\t"}

RECURSIVE LStrip(_)
LStrip(s) == IF s # <<>> /\ IsSpace(Head(s)) THEN LStrip(Tail(s)) ELSE s

RECURSIVE RStrip(_)
RStrip(s) ==
    IF s # <<>> /\ IsSpace(s[Len(s)]) THEN RStrip(SubSeq(s, 1, Len(s) - 1)) ELSE s

\* Strip that strips nothing.
Strip_Nothing(s) == s

\* str.strip()
Strip(s) == RStrip(LStrip(s))

\* str.split('\n\n'): the pieces between non-overlapping separators, scanned
\* left to right; cur is the piece being collected.
RECURSIVE SplitParas(_, _)
SplitParas(s, cur) ==
    IF s = <<>> THEN <<cur>>
    ELSE IF Len(s) >= 2 /\ s[1] = "\n" /\ s[2] = "\n"
         THEN <<cur>> \o SplitParas(SubSeq(s, 3, Len(s)), <<>>)
         ELSE SplitParas(Tail(s), Append(cur, s[1]))

\* Slices that keeps the first slice only.
Slices_FirstOnly(s, size) == <<SubSeq(s, 1, Min2(size, Len(s)))>>

\* [para[i:i+size] for i in range(0, len(para), size)]
RECURSIVE Slices(_, _)
Slices(s, size) ==
    IF s = <<>> THEN <<>>
    ELSE <<SubSeq(s, 1, Min2(size, Len(s)))>>
         \o Slices(SubSeq(s, Min2(size, Len(s)) + 1, Len(s)), size)

\* sep.join(parts)
RECURSIVE Join(_, _)
Join(parts, sep) ==
    IF parts = <<>> THEN <<>>
    ELSE IF Len(parts) = 1 THEN parts[1]
    ELSE parts[1] \o sep \o Join(Tail(parts), sep)

\* ----------------------------------------------------------------- chunker

\* The loop body of split_into_chunks for one paragraph; st = [chunks, cur].
ChunkStep(st, para, size) ==
    IF Len(st.cur) + Len(para) + 2 <= size
    THEN [chunks |-> st.chunks, cur |-> st.cur \o para \o <<"\n", "\n">>]
    ELSE LET flushed == IF Strip(st.cur) # <<>>
                        THEN Append(st.chunks, Strip(st.cur))
                        ELSE st.chunks
         IN  IF Len(para) > size
             THEN [chunks |-> flushed \o Slices(para, size), cur |-> <<>>]
             ELSE [chunks |-> flushed, cur |-> para \o <<"\n", "\n">>]

RECURSIVE ChunkLoop(_, _, _)
ChunkLoop(st, paras, size) ==
    IF paras = <<>> THEN st
    ELSE ChunkLoop(ChunkStep(st, Head(paras), size), Tail(paras), size)

\* split_into_chunks without lines 449-450: the chunk being collected when
\* the paragraphs run out is dropped.
split_into_chunks_NoTail(text, size) ==
    ChunkLoop([chunks |-> <<>>, cur |-> <<>>], SplitParas(text, <<>>), size).chunks

split_into_chunks(text, size) ==
    LET st == ChunkLoop([chunks |-> <<>>, cur |-> <<>>], SplitParas(text, <<>>), size)
    IN  IF Strip(st.cur) # <<>> THEN Append(st.chunks, Strip(st.cur)) ELSE st.chunks


\* ------------------------------------------------------------------ inputs

\* PROMPT_TEMPLATES.keys()
Modes == {"architect", "executor", "disruptor"}
\* The mode selectors a request may carry: the three modes and one that is
\* no key of PROMPT_TEMPLATES.
ModeInputs == Modes \cup {"poet"}

\* Uploaded file names, as (stem, extension).
FileA == [stem |-> "a", ext |-> ".txt"]
FileB == [stem |-> "b", ext |-> ".txt"]
Filenames == {FileA, FileB}

\* Uploaded documents (the bytes of the upload, one character per byte).
DocBlank == <<" ", "\n">>
DocShort == <<"a", "b">>
DocLong == <<"a", "b", "\n", "\n", "c", "d">>
DocThree == <<"a", "b", "\n", "\n", "c", "d", "\n", "\n", "e", "f">>
Docs == {DocBlank, DocShort, DocLong, DocThree}
\* Another one-chunk document, and documents that hold a keyword of
\* generate_filename's lists.
DocOther == <<"c", "d">>
DocFinance == <<"f", "i", "n", "a", "n", "c", "e">>
DocCognitive == <<"c", "o", "g", "n", "i", "t", "i", "v", "e">>
DocBusiness == <<"b", "u", "s", "i", "n", "e", "s", "s">>

AllDocs == Docs \cup {DocOther, DocFinance, DocCognitive, DocBusiness}

\* hashlib.md5(file_content).hexdigest(): distinct documents of the model
\* have distinct digests.
Md5(bytes) == <<"md5", bytes>>

\* Paths.  temp_<filename> lives in the working directory, the cache entries
\* and the reports in OUTPUT_DIR.
TempPath(fn) == <<"temp", fn>>
CachePath(bytes, mode) == <<"cache", Md5(bytes), mode>>
OutPath(name) == <<"out", name>>

\* -------------------------------------------------------------- extraction

\* Text-mode read: "\r\n" and "\r" are read as "\n".
RECURSIVE ReadText(_)
ReadText(b) ==
    IF b = <<>> THEN <<>>
    ELSE IF b[1] = "\r"
         THEN <<"\n">> \o ReadText(IF Len(b) >= 2 /\ b[2] = "\n"
                                   THEN SubSeq(b, 3, Len(b)) ELSE Tail(b))
         ELSE <<b[1]>> \o ReadText(Tail(b))

\* extract_text_from_any(temp_path) on the file system files: a missing file
\* or a failing parser is caught inside and leaves text = "".  The uploads of
\* the model are .txt/.md; every other extension yields "" here.
extract_text_from_any(fn, files) ==
    IF TempPath(fn) \notin DOMAIN files THEN <<>>
    ELSE IF fn.ext \in {".txt", ".md"} THEN ReadText(files[TempPath(fn)].data)
    ELSE <<>>

\* ------------------------------------------------------------------ naming

category_map(mode) ==
    CASE mode = "architect" -> "LOGIC"
      [] mode = "executor" -> "ACTION"
      [] mode = "disruptor" -> "COGNI"
      [] OTHER -> "GEN"

mode_map(mode) ==
    CASE mode = "architect" -> "Architect"
      [] mode = "executor" -> "Executor"
      [] mode = "disruptor" -> "Disruptor"
      [] OTHER -> "Architect"

\* str.capitalize() of the mode selectors of the model
Capitalize(mode) ==
    CASE mode = "architect" -> "Architect"
      [] mode = "executor" -> "Executor"
      [] mode = "disruptor" -> "Disruptor"
      [] mode = "poet" -> "Poet"
      [] OTHER -> mode

\* s[:n]
Prefix(s, n) == SubSeq(s, 1, Min2(n, Len(s)))

\* kw in text
Contains(text, kw) ==
    \E i \in 1..(Len(text) - Len(kw) + 1) : SubSeq(text, i, i + Len(kw) - 1) = kw

KwFin == {<<"f","i","n","a","n","c","e">>, <<"i","n","v","e","s","t","m","e","n","t">>}
KwCogni == {<<"c","o","g","n","i","t","i","v","e">>, <<"p","s","y","c","h","o","l","o","g","y">>}
KwBiz == {<<"b","u","s","i","n","e","s","s">>, <<"s","t","r","a","t","e","g","y">>}

\* Category that looks at the mode only.
Category_ModeOnly(mode, sample) == category_map(mode)

\* The category of generate_filename (lines 398-417).  The documents of the
\* model are lower-case ASCII, so .lower() leaves them as they are and the
\* Chinese keywords of the three lists cannot occur.
Category(mode, sample) ==
    IF sample # <<>>
    THEN LET low == Prefix(sample, 500)
         IN  IF \E k \in KwFin : Contains(low, k) THEN "FIN"
             ELSE IF \E k \in KwCogni : Contains(low, k) THEN "COGNI"
             ELSE IF \E k \in KwBiz : Contains(low, k) THEN "BIZ"
             ELSE category_map(mode)
    ELSE category_map(mode)

\* generate_filename(book_title, mode, sample).  The stems of the model are
\* one alphanumeric character: no word is longer than one character, so
\* short_name is the cleaned title itself (line 391).
generate_filename(title, mode, sample, clock) ==
    [category |-> Category(mode, sample), short |-> title,
     mode_name |-> mode_map(mode), stamp |-> <<clock.day>>]

\* The file name of the cache-hit path (lines 481-492): no keyword look-up,
\* the mode capitalised, a timestamp to the second.
CachedFilename(title, mode, clock) ==
    [category |-> category_map(mode), short |-> title,
     mode_name |-> Capitalize(mode), stamp |-> <<clock.day, clock.sec>>]

\* ------------------------------------------------------------------ errors

\* The superclasses of the exceptions a remote call or a file write raises
\* (httpx's hierarchy for the first three).
Bases(exc) ==
    CASE exc = "ConnectError" -> {"ConnectError", "RequestError", "Exception"}
      [] exc = "ReadTimeout" -> {"ReadTimeout", "TimeoutException", "RequestError", "Exception"}
      [] exc = "ConnectTimeout" -> {"ConnectTimeout", "TimeoutException", "RequestError", "Exception"}
      [] exc = "DecodingError" -> {"DecodingError", "RequestError", "Exception"}
      [] OTHER -> {exc, "Exception"}

\* What a remote call may raise: a connectivity, a timeout, a generic request
\* and an unclassified failure.
RemoteExceptions == {"ConnectError", "ReadTimeout", "DecodingError", "APIError"}

\* ErrorEvent with the RequestError clause first: it takes the connectivity
\* and the timeout failures, which are RequestErrors too.
ErrorEvent_RequestFirst(exc) ==
    IF "RequestError" \in Bases(exc)
    THEN [type |-> "error", v |-> <<"request_failed">>]
    ELSE [type |-> "error", v |-> <<"api_call_failed", exc>>]

\* The except clauses of generate_stream in their order (lines 644-665): the
\* error event's message names the kind, and for two kinds the type.
ErrorEvent(exc) ==
    IF "ConnectError" \in Bases(exc)
    THEN [type |-> "error", v |-> <<"cannot_connect">>]
    ELSE IF Bases(exc) \cap {"TimeoutException", "ReadTimeout", "ConnectTimeout"} # {}
    THEN [type |-> "error", v |-> <<"timeout", exc>>]
    ELSE IF "RequestError" \in Bases(exc)
    THEN [type |-> "error", v |-> <<"request_failed">>]
    ELSE [type |-> "error", v |-> <<"api_call_failed", exc>>]


\* ------------------------------------------------------------------- state

VARIABLES
    run,    \* per request: the handler's and the generator's local variables
    fs,     \* the file system: path -> [data, by], by the request that wrote it
    now,    \* the wall clock: [day, sec]
    call    \* a direct call of split_into_chunks: its arguments and its result

vars == <<run, fs, now, call>>

\* No direct call of split_into_chunks is made.
NoCall == [text |-> <<>>, size |-> 0, chunks |-> <<>>, returned |-> FALSE]

\* A request before it arrives.  pc is the position of the request's
\* coroutine.  The fields of the second and the last line record what
\* happened and are read by no action: whether a cache entry existed when the
\* handler ran, the branch it took, the request whose cache entry it read,
\* the requests that had already delivered done, whether the extractor ran;
\* the Map calls that raised, the order in which the Map calls completed and
\* what process_chunk returned for each chunk, the
\* exception Reduce raised, the write that failed ("report" or "cache"), the
\* text the request wrote to its report, the remote calls issued.
IdleRun ==
    [pc |-> "idle",
     filename |-> FileA, bytes |-> <<>>, mode |-> "",
     resp |-> [status |-> 0, detail |-> ""],
     sawEntry |-> FALSE, hit |-> FALSE, cachedBy |-> 0, after |-> {}, extracted |-> FALSE,
     book |-> <<>>, name |-> [category |-> "", short |-> "", mode_name |-> "", stamp |-> <<>>],
     events |-> <<>>,
     chunks |-> <<>>, slots |-> <<>>, inflight |-> {}, completed |-> 0,
     combined |-> <<>>, acc |-> <<>>, fragc |-> 0,
     cached |-> <<>>, replay |-> 0,
     failed |-> {}, order |-> <<>>, results |-> <<>>, raised |-> "", unsaved |-> "", saved |-> None,
     mapCalls |-> 0, reduceCalls |-> 0]

Init ==
    /\ run = [r \in AllRuns |-> IdleRun]
    /\ fs = <<>>
    /\ now = [day |-> 0, sec |-> 0]
    /\ call = NoCall

Exists(path) == path \in DOMAIN fs

\* open(path, "w").write(data) by request r
Write(files, path, data, r) == (path :> [data |-> data, by |-> r]) @@ files

\* os.remove(path)
Remove(files, path) == [p \in DOMAIN files \ {path} |-> files[p]]

\* if os.path.exists(temp_path): os.remove(temp_path)
RemoveTemp(files, fn) ==
    IF TempPath(fn) \in DOMAIN files THEN Remove(files, TempPath(fn)) ELSE files

Emit(r, ev) == Append(run[r].events, ev)

Delivered(r) == \E i \in 1..Len(run[r].events) : run[r].events[i].type = "done"

\* ----------------------------------------------------------------- handler

\* analyze_book, lines 460-518: the cache entry exists.  The cached text is
\* read, copied to a freshly named report and a replaying generator is
\* returned.  files is the file system after line 466.
HandleHit(r, fn, b, m, files) ==
    LET cached == files[CachePath(b, m)].data
        name == CachedFilename(fn.stem, m, now)
    IN  /\ fs' = Write(files, OutPath(name), cached, r)
        /\ run' = [run EXCEPT ![r] =
               [@ EXCEPT !.pc = "hit0", !.filename = fn, !.bytes = b, !.mode = m,
                         !.resp = [status |-> 200, detail |-> "event-stream"],
                         !.sawEntry = TRUE, !.hit = TRUE,
                         !.cachedBy = files[CachePath(b, m)].by,
                         !.after = {q \in AllRuns : Delivered(q)},
                         !.name = name, !.cached = cached, !.saved = cached]]

\* analyze_book, lines 520-522 and 536-539 with 680-683: the request is
\* refused.  The HTTPException raised is caught by "except Exception", which
\* removes the staging file and answers 500 with str(e) as the detail.
HandleReject(r, fn, b, m, files, detail) ==
    /\ fs' = RemoveTemp(files, fn)
    /\ run' = [run EXCEPT ![r] =
           [@ EXCEPT !.pc = "ended", !.filename = fn, !.bytes = b, !.mode = m,
                     !.resp = [status |-> 500, detail |-> detail],
                     !.sawEntry = CachePath(b, m) \in DOMAIN files,
                     !.extracted = (detail = "content_unavailable"),
                     !.after = {q \in AllRuns : Delivered(q)}]]

\* analyze_book, lines 541-678: the report's name is generated and the
\* generator generate_stream is returned, not yet started.
HandleMiss(r, fn, b, m, files, text) ==
    /\ fs' = files
    /\ run' = [run EXCEPT ![r] =
           [@ EXCEPT !.pc = "gen0", !.filename = fn, !.bytes = b, !.mode = m,
                     !.resp = [status |-> 200, detail |-> "event-stream"],
                     !.sawEntry = CachePath(b, m) \in DOMAIN files,
                     !.extracted = TRUE,
                     !.after = {q \in AllRuns : Delivered(q)},
                     !.book = text,
                     !.name = generate_filename(fn.stem, m, Prefix(text, 1000), now)]]

\* CacheHit looking the entry up under a name without the mode: it never
\* finds the entry that line 637 wrote.
CacheHit_WrongName(files, b, m) == CachePath(b, "") \in DOMAIN files

\* os.path.exists(cache_path), line 474
CacheHit(files, b, m) == CachePath(b, m) \in DOMAIN files

\* InvalidMode that lets every selector pass (a silent default).
InvalidMode_Lax(m) == FALSE

\* prompt_type not in PROMPT_TEMPLATES, line 521
InvalidMode(m) == m \notin Modes

\* Analyze with the extractor run on the staging file as the handler found
\* it, before the upload is written to it.
Analyze_ExtractFirst(r, e) ==
    /\ run[r].pc = "idle"
    /\ \A q \in AllRuns : q < r => run[q].pc # "idle"
    /\ \E fn \in e.files, b \in e.docs, m \in e.modes :
        LET files == Write(fs, TempPath(fn), b, r)
            text == extract_text_from_any(fn, fs)
        IN  IF CacheHit(files, b, m) THEN HandleHit(r, fn, b, m, files)
            ELSE IF InvalidMode(m) THEN HandleReject(r, fn, b, m, files, "invalid_mode")
            ELSE IF Strip(text) = <<>>
                 THEN HandleReject(r, fn, b, m, files, "content_unavailable")
            ELSE HandleMiss(r, fn, b, m, files, text)
    /\ UNCHANGED <<now, call>>

\* analyze_book(file, prompt_type) from the return of "await file.read()" to
\* the handler's return: one segment of the event loop.  Requests are
\* numbered in the order in which their handlers run.
Analyze(r, e) ==
    /\ run[r].pc = "idle"
    /\ \A q \in AllRuns : q < r => run[q].pc # "idle"
    /\ \E fn \in e.files, b \in e.docs, m \in e.modes :
        LET files == Write(fs, TempPath(fn), b, r)
            text == extract_text_from_any(fn, files)
        IN  IF CacheHit(files, b, m) THEN HandleHit(r, fn, b, m, files)
            ELSE IF InvalidMode(m) THEN HandleReject(r, fn, b, m, files, "invalid_mode")
            ELSE IF Strip(text) = <<>>
                 THEN HandleReject(r, fn, b, m, files, "content_unavailable")
            ELSE HandleMiss(r, fn, b, m, files, text)
    /\ UNCHANGED <<now, call>>


\* ------------------------------------------------- generate_cached_stream

\* line 501: the filename event
HitFilename(r) ==
    /\ run[r].pc = "hit0"
    /\ run' = [run EXCEPT ![r].pc = "hit1",
                          ![r].events = Emit(r, [type |-> "filename", v |-> run[r].name])]
    /\ UNCHANGED <<fs, now, call>>

\* line 502: the progress event, which carries a message and no percentage
HitProgress(r) ==
    /\ run[r].pc = "hit1"
    /\ run' = [run EXCEPT ![r].pc = "hit2",
                          ![r].events = Emit(r, [type |-> "progress", v |-> <<>>])]
    /\ UNCHANGED <<fs, now, call>>

\* lines 504-507: the next slice of ReplayChunkSize characters
HitContent(r) ==
    /\ run[r].pc = "hit2"
    /\ run[r].replay < Len(run[r].cached)
    /\ LET i == run[r].replay
           chunk == SubSeq(run[r].cached, i + 1,
                           Min2(i + ReplayChunkSize, Len(run[r].cached)))
       IN  run' = [run EXCEPT ![r].replay = i + ReplayChunkSize,
                              ![r].events = Emit(r, [type |-> "content", v |-> chunk])]
    /\ UNCHANGED <<fs, now, call>>

\* line 508: the done event, once the slices are exhausted
HitDone(r) ==
    /\ run[r].pc = "hit2"
    /\ run[r].replay >= Len(run[r].cached)
    /\ run' = [run EXCEPT ![r].pc = "final",
                          ![r].events = Emit(r, [type |-> "done", v |-> run[r].name])]
    /\ UNCHANGED <<fs, now, call>>

\* -------------------------------------------------------- generate_stream

\* GenFilename without its event: the stream starts with the progress event.
GenFilename_Silent(r) ==
    /\ run[r].pc = "gen0"
    /\ run' = [run EXCEPT ![r].pc = "gen1"]
    /\ UNCHANGED <<fs, now, call>>

\* line 551
GenFilename(r) ==
    /\ run[r].pc = "gen0"
    /\ run' = [run EXCEPT ![r].pc = "gen1",
                          ![r].events = Emit(r, [type |-> "filename", v |-> run[r].name])]
    /\ UNCHANGED <<fs, now, call>>

\* line 554
GenProgress(r) ==
    /\ run[r].pc = "gen1"
    /\ run' = [run EXCEPT ![r].pc = "gen2",
                          ![r].events = Emit(r, [type |-> "progress", v |-> <<5>>])]
    /\ UNCHANGED <<fs, now, call>>

\* split_into_chunks(book_content, chunk_size=ChunkSize), tabulated over the
\* texts the extractor yields for the documents of the model.
Chunked ==
    [text \in {ReadText(d) : d \in AllDocs} |-> split_into_chunks(text, ChunkSize)]

\* lines 557-560: the text is chunked
GenChunks(r) ==
    /\ run[r].pc = "gen2"
    /\ run' = [run EXCEPT ![r].pc = "map0",
                          ![r].chunks = Chunked[run[r].book],
                          ![r].events = Emit(r, [type |-> "progress", v |-> <<10>>])]
    /\ UNCHANGED <<fs, now, call>>

\* lines 585-592: one task per chunk; asyncio.as_completed starts them all,
\* each issues its remote call, and the generator waits for the first
\* completion.  Chunk indices are 1..N here, 0..N-1 in the source.
MapFanOut(r) ==
    /\ run[r].pc = "map0"
    /\ LET n == Len(run[r].chunks)
       IN  run' = [run EXCEPT ![r].pc = "mapping",
                              ![r].slots = [i \in 1..n |-> None],
                              ![r].results = [i \in 1..n |-> None],
                              ![r].inflight = 1..n,
                              ![r].completed = 0,
                              ![r].mapCalls = @ + n]
    /\ UNCHANGED <<fs, now, call>>

\* What a remote submit_one call returns when it succeeds.
MapTexts == {<<"s">>}
\* The outcomes of a remote call: a text, or an exception.
MapOutcomes ==
    [ok : {TRUE}, text : MapTexts] \cup [ok : {FALSE}, text : {<<>>}]

\* process_chunk without a fallback: a failed call leaves None.
process_chunk_NoFallback(chunk, outcome) == IF outcome.ok THEN outcome.text ELSE None

\* process_chunk's result (lines 563-582): the dehydrated text, or the chunk
\* itself when the call raised.
process_chunk(chunk, outcome) == IF outcome.ok THEN outcome.text ELSE chunk

\* MapPercent counting the calls that are still to complete.
MapPercent_Remaining(completed, total) == ((total - completed) * 45) \div total + 35

\* int((completed_count / total_chunks) * 45) + 35.  The source divides and
\* multiplies in floating point; for fewer than 45 chunks the result is the
\* exact one computed here.
MapPercent(completed, total) == (completed * 45) \div total + 35

\* MapComplete that stores a result in the next free slot, in the order of
\* completion.
MapComplete_ByArrival(r) ==
    /\ run[r].pc = "mapping"
    /\ \E i \in run[r].inflight, o \in MapOutcomes :
        LET done == run[r].completed + 1
        IN  run' = [run EXCEPT
                 ![r].slots[done] = process_chunk(run[r].chunks[i], o),
                 ![r].inflight = @ \ {i},
                 ![r].failed = IF o.ok THEN @ ELSE @ \cup {i},
                 ![r].order = Append(@, i),
                 ![r].results[i] = process_chunk(run[r].chunks[i], o),
                 ![r].completed = done,
                 ![r].events = Emit(r, [type |-> "progress",
                                        v |-> <<MapPercent(done, Len(run[r].chunks))>>])]
    /\ UNCHANGED <<fs, now, call>>

\* lines 592-598: a task completes, its result goes to its slot, a progress
\* event is emitted.
MapComplete(r) ==
    /\ run[r].pc = "mapping"
    /\ \E i \in run[r].inflight, o \in MapOutcomes :
        LET done == run[r].completed + 1
        IN  run' = [run EXCEPT
                 ![r].slots[i] = process_chunk(run[r].chunks[i], o),
                 ![r].inflight = @ \ {i},
                 ![r].failed = IF o.ok THEN @ ELSE @ \cup {i},
                 ![r].order = Append(@, i),
                 ![r].results[i] = process_chunk(run[r].chunks[i], o),
                 ![r].completed = done,
                 ![r].events = Emit(r, [type |-> "progress",
                                        v |-> <<MapPercent(done, Len(run[r].chunks))>>])]
    /\ UNCHANGED <<fs, now, call>>

\* "\n\n---\n\n"
Separator == <<"\n", "\n", "-", "-", "-", "\n", "\n">>

\* MapJoin that goes on only if no call failed: a request with a failed call
\* waits forever.
MapJoin_OnlyIfNoneFailed(r) ==
    /\ run[r].pc = "mapping"
    /\ run[r].inflight = {} /\ run[r].failed = {}
    /\ run' = [run EXCEPT ![r].pc = "reduce0",
                          ![r].combined = Join(run[r].slots, Separator),
                          ![r].events = Emit(r, [type |-> "progress", v |-> <<80>>])]
    /\ UNCHANGED <<fs, now, call>>

\* MapJoin that does not wait for the calls in flight: it joins the slots
\* filled so far once one call has completed.
MapJoin_Early(r) ==
    /\ run[r].pc = "mapping"
    /\ run[r].completed >= 1
    /\ run' = [run EXCEPT
           ![r].pc = "reduce0",
           ![r].combined = Join(SelectSeq(run[r].slots, LAMBDA t : t # None), Separator),
           ![r].events = Emit(r, [type |-> "progress", v |-> <<80>>])]
    /\ UNCHANGED <<fs, now, call>>

\* lines 601-603: the slots are joined in index order (str.join raises
\* TypeError on a None slot) and the 80% progress event is emitted.
MapJoin(r) ==
    /\ run[r].pc = "mapping"
    /\ run[r].inflight = {}
    /\ IF \E i \in 1..Len(run[r].slots) : run[r].slots[i] = None
       THEN run' = [run EXCEPT ![r].pc = "final",
                               ![r].events = Emit(r, ErrorEvent("TypeError"))]
       ELSE run' = [run EXCEPT ![r].pc = "reduce0",
                               ![r].combined = Join(run[r].slots, Separator),
                               ![r].events = Emit(r, [type |-> "progress", v |-> <<80>>])]
    /\ UNCHANGED <<fs, now, call>>

\* The content fragments a Reduce stream delivers.
Fragments == {<<"x">>, <<"y">>}

InReduce(r) == run[r].pc \in {"reduce0", "reducing"}

\* The Reduce call is issued by the segment that leaves "reduce0" (line 606).
Issued(r) == IF run[r].pc = "reduce0" THEN 1 ELSE 0

\* min(85 + int((chunk_count / 1000) * 10), 95); chunk_count is a multiple of
\* ProgressEvery here, for which the floating-point result is the exact one.
ReducePercent(count) == Min2(85 + (count * 10) \div 1000, 95)

\* ReduceFragment that emits the fragment and does not accumulate it.
ReduceFragment_NoAccumulate(r, e) ==
    /\ InReduce(r)
    /\ run[r].fragc < e.maxFrags
    /\ \E f \in e.frags :
        run' = [run EXCEPT
            ![r].pc = IF (run[r].fragc + 1) % ProgressEvery = 0 THEN "tick" ELSE "reducing",
            ![r].reduceCalls = @ + Issued(r),
            ![r].fragc = @ + 1,
            ![r].events = Emit(r, [type |-> "content", v |-> f])]
    /\ UNCHANGED <<fs, now, call>>

\* lines 617-625: the stream delivers a fragment with content; it is
\* accumulated and emitted.  (A fragment without content changes nothing.)
ReduceFragment(r, e) ==
    /\ InReduce(r)
    /\ run[r].fragc < e.maxFrags
    /\ \E f \in e.frags :
        run' = [run EXCEPT
            ![r].pc = IF (run[r].fragc + 1) % ProgressEvery = 0 THEN "tick" ELSE "reducing",
            ![r].reduceCalls = @ + Issued(r),
            ![r].acc = @ \o f,
            ![r].fragc = @ + 1,
            ![r].events = Emit(r, [type |-> "content", v |-> f])]
    /\ UNCHANGED <<fs, now, call>>

\* lines 628-630: every ProgressEvery fragments, a progress event
ReduceProgress(r) ==
    /\ run[r].pc = "tick"
    /\ run' = [run EXCEPT ![r].pc = "reducing",
                          ![r].events = Emit(r, [type |-> "progress",
                                                 v |-> <<ReducePercent(run[r].fragc)>>])]
    /\ UNCHANGED <<fs, now, call>>

\* lines 606 or 617 raise: the call fails when it is issued or while the
\* stream is consumed; the matching except clause emits the error event.
ReduceRaise(r, e) ==
    /\ InReduce(r)
    /\ \E exc \in e.excs :
        run' = [run EXCEPT ![r].pc = "final",
                           ![r].reduceCalls = @ + Issued(r),
                           ![r].raised = exc,
                           ![r].events = Emit(r, ErrorEvent(exc))]
    /\ UNCHANGED <<fs, now, call>>

\* ReduceDone without the write of the cache entry.
ReduceDone_NoCache(r) ==
    /\ InReduce(r)
    /\ fs' = Write(fs, OutPath(run[r].name), run[r].acc, r)
    /\ run' = [run EXCEPT ![r].pc = "final",
                          ![r].reduceCalls = @ + Issued(r),
                          ![r].saved = run[r].acc,
                          ![r].events = Emit(r, [type |-> "done", v |-> run[r].name])]
    /\ UNCHANGED <<now, call>>

\* ReduceDone with the cache entry opened and left empty.
ReduceDone_EmptyCache(r) ==
    /\ InReduce(r)
    /\ fs' = Write(Write(fs, OutPath(run[r].name), run[r].acc, r),
                   CachePath(run[r].bytes, run[r].mode), <<>>, r)
    /\ run' = [run EXCEPT ![r].pc = "final",
                          ![r].reduceCalls = @ + Issued(r),
                          ![r].saved = run[r].acc,
                          ![r].events = Emit(r, [type |-> "done", v |-> run[r].name])]
    /\ UNCHANGED <<now, call>>

\* lines 632-642: the stream ends; the report and the cache entry are
\* written and the done event is emitted.
ReduceDone(r) ==
    /\ InReduce(r)
    /\ fs' = Write(Write(fs, OutPath(run[r].name), run[r].acc, r),
                   CachePath(run[r].bytes, run[r].mode), run[r].acc, r)
    /\ run' = [run EXCEPT ![r].pc = "final",
                          ![r].reduceCalls = @ + Issued(r),
                          ![r].saved = run[r].acc,
                          ![r].events = Emit(r, [type |-> "done", v |-> run[r].name])]
    /\ UNCHANGED <<now, call>>

\* ReducePersistFail with the done event emitted before the files are
\* written: the failing write then adds an error event after it.
ReducePersistFail_AfterDone(r) ==
    /\ InReduce(r)
    /\ run' = [run EXCEPT ![r].pc = "final",
                          ![r].reduceCalls = @ + Issued(r),
                          ![r].events = Emit(r, [type |-> "done", v |-> run[r].name])
                                        \o <<ErrorEvent("OSError")>>]
    /\ UNCHANGED <<fs, now, call>>

\* What a file may hold of text when f.write(text) or the close that flushes
\* it raises: any part of text short of the whole.  Of these the model takes
\* the empty one and text less its last character.
Truncations(text) ==
    {SubSeq(text, 1, k) : k \in {0, Len(text) - 1} \cap (0..(Len(text) - 1))}

\* The file systems that "with open(path, "w") as f: f.write(text)" may leave
\* when it raises OSError: open raised and nothing changed, or open created
\* or emptied the file and the write did not get through.
FailedWrite(files, path, text, r) ==
    {files} \cup {Write(files, path, t, r) : t \in Truncations(text)}

\* lines 633-638 raise OSError: the report cannot be written, or the report
\* is written and the cache entry cannot be.  The last except clause emits
\* the error event.
ReducePersistFail(r) ==
    /\ InReduce(r)
    /\ \E at \in {"report", "cache"} :
        LET report == OutPath(run[r].name)
            before == IF at = "cache" THEN Write(fs, report, run[r].acc, r) ELSE fs
            path == IF at = "cache" THEN CachePath(run[r].bytes, run[r].mode) ELSE report
        IN  \E left \in FailedWrite(before, path, run[r].acc, r) :
              /\ fs' = left
              /\ run' = [run EXCEPT
                    ![r].pc = "final",
                    ![r].reduceCalls = @ + Issued(r),
                    ![r].unsaved = at,
                    ![r].saved = IF at = "cache" THEN run[r].acc
                                 ELSE IF left = before THEN None
                                 ELSE left[report].data,
                    ![r].events = Emit(r, ErrorEvent("OSError"))]
    /\ UNCHANGED <<now, call>>

\* The generator is resumed after its terminal event and returns.
\* generate_stream's finally removes the staging file (lines 666-668);
\* generate_cached_stream has nothing to run.
Finish(r) ==
    /\ run[r].pc = "final"
    /\ fs' = IF run[r].hit THEN fs ELSE RemoveTemp(fs, run[r].filename)
    /\ run' = [run EXCEPT ![r].pc = "ended"]
    /\ UNCHANGED <<now, call>>

\* The positions at which a generator that was handed to the response has
\* not yet emitted its terminal event: not started, or suspended at a yield
\* or at the await of line 593.
Unfinished ==
    {"hit0", "hit1", "hit2", "gen0", "gen1", "gen2", "map0", "mapping",
     "reduce0", "reducing", "tick"}

\* The client goes away and the response closes the generator where it is
\* suspended.  GeneratorExit and CancelledError are no Exception: they pass
\* the except clauses of lines 644-665, and generate_stream's finally removes
\* the staging file (lines 666-668).  A generator that was never started has
\* nothing to run, and neither has generate_cached_stream.
Abandon(r) ==
    /\ run[r].pc \in Unfinished
    /\ fs' = IF run[r].hit \/ run[r].pc = "gen0" THEN fs
             ELSE RemoveTemp(fs, run[r].filename)
    /\ run' = [run EXCEPT ![r].pc = "abandoned"]
    /\ UNCHANGED <<now, call>>

\* ------------------------------------------------------------------- clock

\* The clock advances by a second, or to the next day.
Tick(maxDay, maxSec) ==
    /\ \/ /\ now.sec < maxSec
          /\ now' = [now EXCEPT !.sec = @ + 1]
       \/ /\ now.day < maxDay
          /\ now' = [day |-> now.day + 1, sec |-> 0]
    /\ UNCHANGED <<run, fs, call>>

\* ---------------------------------------------------------- specifications

\* The steps of the two generators, but for the progress event of every
\* ProgressEvery-th fragment.  e names the sets the inputs are drawn from:
\* the uploads (files, docs, modes) and the remote service's behaviour
\* (frags, maxFrags, excs).
Stream(r, e) ==
    \/ HitFilename(r) \/ HitProgress(r) \/ HitContent(r) \/ HitDone(r)
    \/ GenFilename(r) \/ GenProgress(r) \/ GenChunks(r)
    \/ MapFanOut(r) \/ MapComplete(r) \/ MapJoin(r)
    \/ ReduceFragment(r, e) \/ ReduceRaise(r, e)
    \/ ReduceDone(r) \/ ReducePersistFail(r)
    \/ Finish(r)

\* Spec: NumRuns concurrent requests, any file name and mode, a blank and a
\* one-chunk document, short Reduce streams.
MainEnv ==
    [files |-> Filenames, docs |-> {DocBlank, DocShort}, modes |-> ModeInputs,
     frags |-> Fragments, maxFrags |-> MaxFrags, excs |-> RemoteExceptions]

Next ==
    \E r \in 1..NumRuns : Analyze(r, MainEnv) \/ Stream(r, MainEnv)

Spec == Init /\ [][Next]_vars


\* SpecOne: one request in full: every document, a valid and an invalid
\* mode, every outcome of its Map calls, a Reduce stream long enough for the progress event of
\* line 630, and an OUTPUT_DIR that may hold a cache entry written in an
\* earlier life of the process (request 0), so that the request may hit.
LongText == [i \in 1..(ProgressEvery + 1) |-> "x"]

OldTexts == {<<"x">>, LongText}

OneEnv ==
    [files |-> {FileA}, docs |-> Docs, modes |-> {"architect", "poet"},
     frags |-> {<<"x">>}, maxFrags |-> 2 * ProgressEvery + 1, excs |-> RemoteExceptions]

InitOne ==
    /\ run = [r \in AllRuns |-> IdleRun]
    /\ \/ fs = <<>>
       \/ \E t \in OldTexts :
            fs = (CachePath(DocShort, "architect") :> [data |-> t, by |-> 0])
    /\ now = [day |-> 0, sec |-> 0]
    /\ call = NoCall

NextOne ==
    \/ Analyze(1, OneEnv)
    \/ Stream(1, OneEnv)
    \/ ReduceProgress(1)

SpecOne == InitOne /\ [][NextOne]_vars


\* SpecRace: NumRacers requests that all upload the same document under the
\* same file name and mode, so that they meet on one cache entry and one
\* staging file.
RaceEnv ==
    [files |-> {FileA}, docs |-> {DocShort}, modes |-> {"architect"},
     frags |-> {<<"x">>}, maxFrags |-> MaxFrags, excs |-> {"ConnectError"}]

NextRace ==
    \E r \in 1..NumRacers : Analyze(r, RaceEnv) \/ Stream(r, RaceEnv)

SpecRace == Init /\ [][NextRace]_vars

\* SpecClock: NumRuns requests while the clock advances, with two documents
\* uploaded under one file name and one mode.
ClockEnv ==
    [files |-> {FileA}, docs |-> {DocShort, DocOther}, modes |-> {"architect"},
     frags |-> {<<"x">>}, maxFrags |-> MaxFrags, excs |-> {"ConnectError"}]

NextClock ==
    \/ \E r \in 1..NumRuns : Analyze(r, ClockEnv) \/ Stream(r, ClockEnv)
    \/ Tick(MaxDay, MaxSec)

SpecClock == Init /\ [][NextClock]_vars

\* SpecLive: NumRuns requests of a one-chunk or a two-chunk document whose
\* streams are consumed to their end and whose remote calls all return or
\* fail: a generator that can take a step eventually takes one.
LiveEnv ==
    [files |-> {FileA}, docs |-> {DocShort, DocLong}, modes |-> {"architect"},
     frags |-> {<<"x">>}, maxFrags |-> MaxFrags, excs |-> {"ConnectError", "APIError"}]

NextLive ==
    \E r \in 1..NumRuns : Analyze(r, LiveEnv) \/ Stream(r, LiveEnv)

SpecLive ==
    /\ Init /\ [][NextLive]_vars
    /\ \A r \in 1..NumRuns : WF_vars(Stream(r, LiveEnv))

\* SpecChunk: split_into_chunks called directly, with every text of up to
\* MaxLen characters over Alphabet and every size limit from 1 to MaxSize.
Alphabet == {"a", "b", " ", "\n"}

Texts == UNION {[1..n -> Alphabet] : n \in 0..MaxLen}

InitChunk ==
    /\ run = [r \in AllRuns |-> IdleRun]
    /\ fs = <<>>
    /\ now = [day |-> 0, sec |-> 0]
    /\ call \in [text : Texts, size : 1..MaxSize, chunks : {<<>>}, returned : {FALSE}]

\* chunks = split_into_chunks(text, chunk_size=size)
CallChunker ==
    /\ ~call.returned /\ call.size > 0
    /\ call' = [call EXCEPT !.chunks = split_into_chunks(call.text, call.size),
                            !.returned = TRUE]
    /\ UNCHANGED <<run, fs, now>>

NextChunk == CallChunker

SpecChunk == InitChunk /\ [][NextChunk]_vars

\* SpecName: one request while the clock advances, under any mode, with
\* documents that hold a keyword of generate_filename and one that holds
\* none, and an OUTPUT_DIR that may hold a cache entry of an earlier life of
\* the process, so that the request may hit.
NameDocs == {DocShort, DocFinance, DocCognitive, DocBusiness}

NameEnv ==
    [files |-> {FileA}, docs |-> NameDocs, modes |-> ModeInputs,
     frags |-> {<<"x">>}, maxFrags |-> MaxFrags, excs |-> {"ConnectError"}]

InitName ==
    /\ run = [r \in AllRuns |-> IdleRun]
    /\ \/ fs = <<>>
       \/ \E d \in NameDocs, m \in Modes :
            fs = (CachePath(d, m) :> [data |-> <<"x">>, by |-> 0])
    /\ now = [day |-> 0, sec |-> 0]
    /\ call = NoCall

NextName ==
    \/ Analyze(1, NameEnv)
    \/ Stream(1, NameEnv)
    \/ Tick(MaxDay, MaxSec)

SpecName == InitName /\ [][NextName]_vars

\* SpecQuit: NumRuns requests of a blank, a one-chunk or a two-chunk document
\* uploaded under one file name, under a valid or an invalid mode, whose
\* clients may go away at any moment and whose Reduce streams have up to
\* MaxFrags + 1 fragments.
QuitEnv ==
    [files |-> {FileA}, docs |-> {DocBlank, DocShort, DocLong}, modes |-> {"architect", "poet"},
     frags |-> {<<"x">>}, maxFrags |-> MaxFrags + 1, excs |-> {"ConnectError"}]

NextQuit ==
    \E r \in 1..NumRuns :
        Analyze(r, QuitEnv) \/ Stream(r, QuitEnv) \/ Abandon(r)

SpecQuit == Init /\ [][NextQuit]_vars

\* ------------------------------------------------------------------ claims

Types(r) == [i \in 1..Len(run[r].events) |-> run[r].events[i].type]

Terminal == {"done", "error"}

\* The request was answered with an event stream, and the stream is over.
StreamOver(r) == run[r].pc \in {"final", "ended"} /\ run[r].resp.status = 200

\* The number of content events among the first n events of the request.
ContentBefore(r, n) == Cardinality({j \in 1..n : run[r].events[j].type = "content"})

\* The concatenation of the request's content events, in emission order.
RECURSIVE ContentOf(_)
ContentOf(evs) ==
    IF evs = <<>> THEN <<>>
    ELSE (IF Head(evs).type = "content" THEN Head(evs).v ELSE <<>>) \o ContentOf(Tail(evs))

\* C1 as stated: the event types of every finished stream are
\* filename (progress)* (content)+ (done|error).
C1_Original ==
    \A r \in AllRuns : StreamOver(r) =>
        LET t == Types(r)
            n == Len(t)
        IN  /\ n >= 3
            /\ t[1] = "filename"
            /\ t[n] \in Terminal
            /\ \E k \in 1..(n - 2) :
                 /\ \A i \in 2..k : t[i] = "progress"
                 /\ \A i \in (k + 1)..(n - 1) : t[i] = "content"

\* C1, amended: the event types of every finished stream are one filename
\* event, then progress and content events, then exactly one terminal event
\* (done or error); there may be no content event at all, and a progress
\* event follows a content event only directly after every ProgressEvery-th
\* content event.
C1_EventShape ==
    \A r \in AllRuns : StreamOver(r) =>
        LET t == Types(r)
            n == Len(t)
        IN  /\ n >= 2
            /\ t[1] = "filename"
            /\ t[n] \in Terminal
            /\ \A i \in 2..(n - 1) : t[i] \in {"progress", "content"}
            /\ \A i \in 2..(n - 1) :
                 (t[i] = "progress" /\ ContentBefore(r, i) > 0) =>
                     /\ t[i - 1] = "content"
                     /\ ContentBefore(r, i) % ProgressEvery = 0

\* A finished stream in which a progress event followed the ProgressEvery-th
\* content event.
C1_Witness ==
    \E r \in AllRuns :
        /\ run[r].pc = "ended" /\ run[r].resp.status = 200
        /\ \E i \in 2..Len(run[r].events) :
             run[r].events[i].type = "progress" /\ run[r].events[i - 1].type = "content"

\* C2: in every stream, at every moment, a done or error event is the last
\* event emitted: no event follows a terminal event, so no stream holds two
\* terminal events, and none holds both done and error.
C2_TerminalIsLast ==
    \A r \in AllRuns :
        \A i \in 1..Len(run[r].events) :
            run[r].events[i].type \in Terminal => i = Len(run[r].events)

\* A stream that has ended with an error event after content events, its
\* generator finished.
C2_Witness ==
    \E r \in AllRuns :
        /\ run[r].pc = "ended"
        /\ Len(run[r].events) >= 3
        /\ run[r].events[Len(run[r].events)].type = "error"
        /\ run[r].events[Len(run[r].events) - 1].type = "content"

\* The Map phase of the request is over: every task has completed.
MapOver(r) ==
    /\ run[r].resp.status = 200 /\ ~run[r].hit
    /\ run[r].pc \in {"mapping", "reduce0", "reducing", "tick", "final", "ended"}
    /\ run[r].inflight = {}

\* C3: when the Map phase of a request with N >= 1 chunks is over, whatever
\* calls failed, there are N slots, none None; the slot of a chunk whose call
\* failed holds that chunk's text; and the run was not aborted: if it has
\* emitted an error event, it had issued its Reduce call.
C3_MapFillsEverySlot ==
    \A r \in AllRuns : (MapOver(r) /\ Len(run[r].chunks) >= 1) =>
        /\ Len(run[r].slots) = Len(run[r].chunks)
        /\ run[r].completed = Len(run[r].chunks)
        /\ \A i \in 1..Len(run[r].slots) :
             /\ run[r].slots[i] # None
             /\ i \in run[r].failed => run[r].slots[i] = run[r].chunks[i]
        /\ (\E i \in 1..Len(run[r].events) : run[r].events[i].type = "error")
             => run[r].reduceCalls = 1

\* A request of three chunks of which one call failed and two succeeded has
\* passed the Map phase and issued its Reduce call.
C3_Witness ==
    \E r \in AllRuns :
        /\ run[r].pc = "reducing"
        /\ Len(run[r].chunks) = 3
        /\ Cardinality(run[r].failed) = 1

\* The description the error event is to carry for each kind of failure.
ExpectedKind(exc) ==
    CASE exc = "ConnectError" -> "cannot_connect"
      [] exc = "ReadTimeout" -> "timeout"
      [] exc = "DecodingError" -> "request_failed"
      [] exc = "APIError" -> "api_call_failed"
      [] OTHER -> "?"

\* C10: a request whose Reduce call raised a connectivity, timeout, generic
\* request or unclassified failure (when issued or while its fragments were
\* consumed) has emitted exactly one error event, as its last event, whose
\* description is the one of that kind (the four descriptions differ), has
\* emitted no done event, and its generator is at its end.
C10_ReduceFailureIsTerminal ==
    \A r \in AllRuns : run[r].raised # "" =>
        LET ev == run[r].events
            n == Len(ev)
        IN  /\ run[r].pc \in {"final", "ended"}
            /\ n >= 1 /\ ev[n].type = "error"
            /\ ev[n].v[1] = ExpectedKind(run[r].raised)
            /\ Cardinality({i \in 1..n : ev[i].type = "error"}) = 1
            /\ \A i \in 1..n : ev[i].type # "done"
            /\ Cardinality({ExpectedKind(x) : x \in RemoteExceptions})
                 = Cardinality(RemoteExceptions)

\* A Reduce stream that timed out after it had delivered a fragment.
C10_Witness ==
    \E r \in AllRuns :
        /\ run[r].pc = "ended"
        /\ run[r].raised = "ReadTimeout"
        /\ run[r].fragc >= 1


SamePair(r, q) == run[r].bytes = run[q].bytes /\ run[r].mode = run[q].mode

Arrived(r) == run[r].pc # "idle"

\* Request r arrived after request q, of the same (bytes, mode), had
\* delivered its done event.
Later(r, q) == Arrived(r) /\ q \in run[r].after /\ q # r /\ SamePair(r, q)

Computes(r) == run[r].mapCalls + run[r].reduceCalls > 0

\* C5 as stated: of the requests of one (bytes, mode), at most one ever
\* issues remote synthesis calls.
C5_Original ==
    \A r, q \in AllRuns :
        (r # q /\ SamePair(r, q) /\ Computes(r)) => ~Computes(q)

\* C5, amended: a request issues remote synthesis calls only if no cache
\* entry of its (bytes, mode) existed when its handler ran; so of two
\* requests of one (bytes, mode) that both issue remote calls, neither
\* arrived after the other had delivered done.  Requests that overlap, or
\* that follow a failed one, may each issue them.
C5_NoCallsOnceCached ==
    \A r \in AllRuns : Computes(r) =>
        /\ ~run[r].sawEntry
        /\ \A q \in AllRuns : (q # r /\ SamePair(r, q) /\ Computes(q)) =>
             (q \notin run[r].after /\ r \notin run[q].after)

\* Two overlapping requests of one (bytes, mode) have both issued remote
\* calls and ended, one of them with done.
C5_Witness ==
    \E r, q \in AllRuns :
        /\ r # q /\ SamePair(r, q) /\ Computes(r) /\ Computes(q)
        /\ run[r].pc = "ended" /\ run[q].pc = "ended"
        /\ Delivered(r)

IsCache(path) == path[1] = "cache"

\* C6 as stated: the text of a cache entry, once written, never changes.
C6_Original ==
    [][\A p \in DOMAIN fs :
          IsCache(p) => (p \in DOMAIN fs' /\ fs'[p].data = fs[p].data)]_vars

\* C6, amended: a cache entry is never removed, and a request writes the
\* entry of its own fingerprint, with the text it accumulated or, when the
\* write fails, with a part of it, only if no entry of that fingerprint
\* existed when its handler ran the check of line 474; an entry is therefore
\* overwritten only by a request that had passed that check before the entry
\* was first written (the last writer wins).
C6_WrittenOnlyIfAbsentAtCheck ==
    [][/\ \A p \in DOMAIN fs : IsCache(p) => p \in DOMAIN fs'
       /\ \A p \in DOMAIN fs' :
            (IsCache(p) /\ (p \notin DOMAIN fs \/ fs'[p] # fs[p])) =>
                LET w == fs'[p].by
                IN  /\ w \in AllRuns
                    /\ ~run[w].sawEntry
                    /\ p = CachePath(run[w].bytes, run[w].mode)
                    /\ fs'[p].data \in {run[w].acc} \cup Truncations(run[w].acc)]_vars

\* Two requests of one (bytes, mode) have both missed the cache and delivered
\* done with different reports: the entry of the first was overwritten.
C6_Witness ==
    \E r, q \in AllRuns :
        /\ r # q /\ SamePair(r, q)
        /\ ~run[r].hit /\ ~run[q].hit /\ Delivered(r) /\ Delivered(q)
        /\ ContentOf(run[r].events) # ContentOf(run[q].events)

\* The staging file the request wrote is still there.
HoldsStagingFile(r) ==
    /\ TempPath(run[r].filename) \in DOMAIN fs
    /\ fs[TempPath(run[r].filename)].by = r

\* C7: once a request has ended, on whatever path, the staging file it wrote
\* no longer exists.
C7_StagingFileReleased ==
    \A r \in AllRuns : run[r].pc = "ended" => ~HoldsStagingFile(r)

AllSpace(text) == \A i \in 1..Len(text) : IsSpace(text[i])

LastEvent(r) == run[r].events[Len(run[r].events)]

\* C11: a request whose Reduce stream completed and whose write of the
\* report or of the cache entry then failed ends its stream with a done
\* event, and not with an error event that reports a failed generation.
C11_PersistFailureStillDone ==
    \A r \in AllRuns : (run[r].unsaved # "" /\ StreamOver(r)) =>
        /\ LastEvent(r).type = "done"
        /\ \A i \in 1..Len(run[r].events) : run[r].events[i].type # "error"

\* The step emits the request's done event.
DoneNow(r) == ~Delivered(r) /\ Delivered(r)'

\* The step is the request's handler, and it takes the cache-hit path.
HitNow(r) == run[r].pc = "idle" /\ run'[r].hit

WithPercent(r) ==
    {i \in 1..Len(run[r].events) :
        run[r].events[i].type = "progress" /\ run[r].events[i].v # <<>>}

\* The percentage of the request's i-th event.
Percent(r, i) == run[r].events[i].v[1]

\* The percentages of lines 554, 560, 597, 603 and 629, for a run of n chunks
\* whose Reduce stream emits t progress events, never decrease from one
\* progress event to the next.
StepsUp(n, t) ==
    /\ 5 <= 10 /\ 10 <= MapPercent(1, n)
    /\ \A k \in 1..(n - 1) : MapPercent(k, n) <= MapPercent(k + 1, n)
    /\ MapPercent(n, n) <= 80
    /\ t >= 1 => 80 <= ReducePercent(ProgressEvery)
    /\ \A k \in 1..(t - 1) :
         ReducePercent(k * ProgressEvery) <= ReducePercent((k + 1) * ProgressEvery)

\* C13: in every stream, whatever the number of chunks, the order in which
\* the Map calls completed and the number of Reduce fragments, the percentage
\* of each progress event is at least the percentage of every earlier one;
\* and when a text is about to be chunked, the percentages the run will
\* compute never decrease, for every chunk count up to MaxChunks and every
\* number of Reduce progress events up to MaxTicks.
C13_ProgressNonDecreasing ==
    \A r \in AllRuns :
        /\ \A i, j \in WithPercent(r) : i < j => Percent(r, i) <= Percent(r, j)
        /\ run[r].pc = "gen2" => \A n \in 1..MaxChunks : StepsUp(n, MaxTicks)

\* A stream of three chunks, of which the third completed first, has ended
\* after two progress events of its Reduce stream.
C13_Witness ==
    \E r \in AllRuns :
        /\ run[r].pc = "ended"
        /\ Len(run[r].chunks) = 3 /\ Len(run[r].order) = 3 /\ run[r].order[1] = 3
        /\ run[r].fragc >= 2 * ProgressEvery
        /\ Cardinality(WithPercent(r)) = 2 + 3 + 1 + 2

\* The request has written a report.
Persisted(r) == run[r].saved # None

\* C14: two requests that have each written a report wrote them under
\* different file names.
C14_OutputFilenameUnique ==
    \A r, q \in AllRuns :
        (r # q /\ Persisted(r) /\ Persisted(q)) => run[r].name # run[q].name

\* The category label of a mode.
ModeLabel(m) ==
    CASE m = "architect" -> "LOGIC"
      [] m = "executor" -> "ACTION"
      [] m = "disruptor" -> "COGNI"

\* The text holds a finance, a cognition, a business keyword.
OnFinance(text) == Contains(text, <<"f","i","n","a","n","c","e">>)
OnCognition(text) == Contains(text, <<"c","o","g","n","i","t","i","v","e">>)
OnBusiness(text) == Contains(text, <<"b","u","s","i","n","e","s","s">>)

\* C15 as stated: the file name of every report written carries the category
\* label of the request's mode, whatever the document holds.
C15_Original ==
    \A r \in AllRuns : Persisted(r) =>
        run[r].name.category = ModeLabel(run[r].mode)

\* C15, amended: the file name of a report written on the cache-hit path
\* carries the category label of the request's mode; the file name of a
\* report written on the cache-miss path carries FIN, COGNI or BIZ when the
\* document's text holds a finance, cognition or business keyword, and the
\* category label of the mode otherwise; and the filename and done events
\* carry that file name.
C15_CategoryLabel ==
    \A r \in AllRuns :
        /\ Persisted(r) =>
             LET text == run[r].book
             IN  run[r].name.category =
                    IF run[r].hit THEN ModeLabel(run[r].mode)
                    ELSE IF OnFinance(text) THEN "FIN"
                    ELSE IF OnCognition(text) THEN "COGNI"
                    ELSE IF OnBusiness(text) THEN "BIZ"
                    ELSE ModeLabel(run[r].mode)
        /\ \A i \in 1..Len(run[r].events) :
             run[r].events[i].type \in {"filename", "done"} =>
                run[r].events[i].v = run[r].name

\* A report on finance was written under mode architect and another clock
\* reading, and its stream has ended with done.
C15_Witness ==
    \E r \in AllRuns :
        /\ run[r].pc = "ended" /\ Delivered(r) /\ ~run[r].hit
        /\ run[r].mode = "architect" /\ run[r].bytes = DocFinance
        /\ run[r].name.category = "FIN" /\ run[r].name.stamp = <<MaxDay>>

\* The text without the characters of the set drop.
RECURSIVE Without(_, _)
Without(text, drop) ==
    IF text = <<>> THEN <<>>
    ELSE (IF Head(text) \in drop THEN <<>> ELSE <<Head(text)>>)
         \o Without(Tail(text), drop)

\* The text is the chunks in index order, each of them unchanged, with white
\* space only before, between and after them.
RECURSIVE ChunksCover(_, _)
ChunksCover(text, chunks) ==
    IF chunks = <<>> THEN AllSpace(text)
    ELSE LET c == Head(chunks)
         IN  \E k \in 0..(Len(text) - Len(c)) :
                /\ AllSpace(SubSeq(text, 1, k))
                /\ SubSeq(text, k + 1, k + Len(c)) = c
                /\ ChunksCover(SubSeq(text, k + Len(c) + 1, Len(text)), Tail(chunks))

\* C16 as stated: the chunks split_into_chunks returns, concatenated in index
\* order, are the text but for the line breaks that join paragraphs, and no
\* chunk is longer than the size limit.  (A slice of a paragraph that is
\* split by force is no longer than the limit either.)
C16_Original ==
    call.returned =>
        /\ Without(Join(call.chunks, <<>>), {"\n"}) = Without(call.text, {"\n"})
        /\ \A i \in 1..Len(call.chunks) : Len(call.chunks[i]) <= call.size

\* C16, amended: the text is the chunks split_into_chunks returns, in index
\* order and each unchanged, with white space only (line breaks, blanks,
\* tabs) before, between and after them: every chunk but a slice of a
\* paragraph split by force is stripped of all leading and trailing white
\* space, not of the paragraph separators only; no character that is not
\* white space is lost, duplicated or reordered; and no chunk, slice or not,
\* is empty or longer than the size limit.
C16_ChunksCoverText ==
    call.returned =>
        /\ ChunksCover(call.text, call.chunks)
        /\ Without(Join(call.chunks, <<>>), {" ", "\n", "\t"})
             = Without(call.text, {" ", "\n", "\t"})
        /\ \A i \in 1..Len(call.chunks) :
             Len(call.chunks[i]) >= 1 /\ Len(call.chunks[i]) <= call.size

\* A text of several paragraphs was split into a chunk of a whole paragraph
\* and the slices of a paragraph longer than the size limit, and a blank of
\* the text is in no chunk.
C16_Witness ==
    /\ call.returned
    /\ Len(call.chunks) >= 3
    /\ Len(SplitParas(call.text, <<>>)) >= 2
    /\ \E p \in 1..Len(SplitParas(call.text, <<>>)) :
         Len(SplitParas(call.text, <<>>)[p]) > call.size
    /\ Without(Join(call.chunks, <<>>), {"\n"}) # Without(call.text, {"\n"})

\* C17 as stated: split_into_chunks returns at least one chunk for every text
\* that is not empty.
C17_Original ==
    (call.returned /\ call.text # <<>>) => Len(call.chunks) >= 1

\* C17, amended: split_into_chunks returns at least one chunk for every text
\* that holds a character that is not white space, whatever the size limit;
\* for a text of white space only it returns no chunk, unless a paragraph of
\* the text is longer than the size limit.
C17_ChunkForEveryNonBlankText ==
    call.returned =>
        /\ ~AllSpace(call.text) => Len(call.chunks) >= 1
        /\ (AllSpace(call.text) /\ Len(call.text) <= call.size) => call.chunks = <<>>

\* A text that begins and ends in white space was split at the smallest size
\* limit into one chunk per character that is not white space.
C17_Witness ==
    /\ call.returned /\ call.size = 1
    /\ Len(call.text) = MaxLen
    /\ IsSpace(call.text[1]) /\ IsSpace(call.text[MaxLen])
    /\ Len(call.chunks) = Len(Without(call.text, {" ", "\n", "\t"}))
    /\ Len(call.chunks) >= 2

\* The request's Map results have been joined into the Reduce input.
Joined(r) ==
    /\ MapOver(r) /\ run[r].pc # "mapping"
    /\ run[r].pc \in {"final", "ended"} => run[r].reduceCalls = 1

\* The first n results in ascending index, the separator between two
\* consecutive ones.
RECURSIVE InIndexOrder(_, _)
InIndexOrder(res, n) ==
    IF n = 0 THEN <<>>
    ELSE IF n = 1 THEN res[1]
    ELSE InIndexOrder(res, n - 1) \o <<"\n", "\n", "-", "-", "-", "\n", "\n">> \o res[n]

\* C18: whatever the order in which the N Map calls of a request completed,
\* the input of its Reduce call is the N results of process_chunk (the
\* dehydrated text, or the chunk of a failed call) in ascending chunk index,
\* "\n\n---\n\n" between two consecutive ones.
C18_ReduceInputInIndexOrder ==
    \A r \in AllRuns : Joined(r) =>
        /\ Len(run[r].order) = Len(run[r].chunks)
        /\ run[r].combined = InIndexOrder(run[r].results, Len(run[r].chunks))

\* The Map calls of a request of three chunks completed in the order 3, 1, 2,
\* the first and the third of them by fallback, and the results were joined.
C18_Witness ==
    \E r \in AllRuns :
        /\ run[r].pc = "reduce0"
        /\ run[r].order = <<3, 1, 2>>
        /\ run[r].failed = {1, 3}

\* C19: a request that missed the cache issues at most one Reduce call; when
\* it has issued it, it had issued its N Map calls, all N have completed,
\* none is in flight and every slot is filled; and from then on no Map call
\* is issued and none completes.  A request that hit the cache issues no
\* call.
C19_ReduceAfterMap ==
    [][\A r \in AllRuns :
          /\ run'[r].reduceCalls <= 1
          /\ run'[r].hit => (run'[r].reduceCalls = 0 /\ run'[r].mapCalls = 0)
          /\ run'[r].reduceCalls = 1 =>
               /\ run'[r].mapCalls = Len(run'[r].chunks)
               /\ run'[r].completed = Len(run'[r].chunks)
               /\ run'[r].inflight = {}
               /\ \A i \in 1..Len(run'[r].chunks) : run'[r].slots[i] # None
          /\ run[r].reduceCalls = 1 =>
               /\ run'[r].mapCalls = run[r].mapCalls
               /\ run'[r].completed = run[r].completed
               /\ run'[r].slots = run[r].slots]_vars

\* A request of three chunks, one of them filled by fallback, has issued its
\* Reduce call, received a fragment and ended.
C19_Witness ==
    \E r \in AllRuns :
        /\ run[r].pc = "ended" /\ run[r].reduceCalls = 1
        /\ Len(run[r].chunks) = 3 /\ Cardinality(run[r].failed) = 1
        /\ run[r].fragc >= 1

\* C20: every request that was answered with an event stream eventually has
\* a done or an error event as the last event of its stream and its
\* generator at its end, when the stream is consumed to its end and every
\* remote call returns or fails.
C20_EveryStreamEnds ==
    \A r \in 1..NumRuns :
        (run[r].resp.status = 200) ~>
            (run[r].pc = "ended" /\ Len(run[r].events) >= 2
                /\ LastEvent(r).type \in Terminal)

\* Two overlapping requests have ended, one with done after a fallback in its
\* Map phase, the other with error.
C20_Witness ==
    \E r, q \in 1..NumRuns :
        /\ run[r].pc = "ended" /\ run[q].pc = "ended"
        /\ r \notin run[q].after /\ q \notin run[r].after
        /\ Delivered(r) /\ run[r].failed # {}
        /\ run[q].resp.status = 200 /\ LastEvent(q).type = "error"

\* The Map calls of the request that were issued and have not completed.
InFlight(r) == Cardinality(run[r].inflight)

EntriesOf(r) == {p \in DOMAIN fs : IsCache(p) /\ fs[p].by = r}

\* C22: the cache never holds a partial report.  Every cache entry is of a
\* valid mode and holds the complete text accumulated by the request that
\* wrote it, under that request's fingerprint, and that request's Reduce
\* stream had ended without error; a request that failed in Map or Reduce, or
\* that was abandoned, has written no cache entry.
C22_CacheHoldsCompleteReports ==
    /\ \A p \in DOMAIN fs : IsCache(p) =>
         /\ p[3] \in Modes
         /\ \A w \in AllRuns : fs[p].by = w =>
              /\ p = CachePath(run[w].bytes, run[w].mode)
              /\ run[w].pc \in {"final", "ended"} /\ run[w].raised = ""
              /\ fs[p].data = run[w].acc
    /\ \A r \in AllRuns :
         (run[r].raised # "" \/ run[r].pc = "abandoned") => EntriesOf(r) = {}

\* The step is the request's handler, and the handler runs the extractor.
ExtractsNow(r) == run[r].pc = "idle" /\ run'[r].extracted

\* C23: whatever the interleaving of the requests, and also when they upload
\* different documents under one file name and so share the staging path,
\* the text a request extracts is the text of the bytes it uploaded itself:
\* the staging file the extractor reads exists and holds those bytes, so that
\* a request that goes on has that text as its book, and a request refused
\* for want of content uploaded a document without content.
C23_ExtractsOwnUpload ==
    [][\A r \in AllRuns : ExtractsNow(r) =>
          LET own == ReadText(run'[r].bytes)
              staging == TempPath(run'[r].filename)
          IN  IF run'[r].resp.status = 200
              THEN /\ run'[r].book = own
                   /\ staging \in DOMAIN fs'
                   /\ fs'[staging] = [data |-> run'[r].bytes, by |-> r]
              ELSE /\ run'[r].resp.detail = "content_unavailable"
                   /\ AllSpace(own)]_vars

\* Two requests that uploaded different documents under one file name have
\* both extracted a text, the second while the first was streaming, and the
\* first has since removed the staging file they share.
C23_Witness ==
    \E r, q \in AllRuns :
        /\ r < q /\ run[r].filename = run[q].filename
        /\ run[r].extracted /\ run[q].extracted
        /\ run[r].book # <<>> /\ run[q].book # <<>> /\ run[r].book # run[q].book
        /\ run[r].pc = "ended" /\ q \notin run[r].after /\ r \notin run[q].after
        /\ run[q].pc = "mapping"
        /\ TempPath(run[q].filename) \notin DOMAIN fs

====
